---------------------------- MODULE Spec2Model ----------------------------
(***************************************************************************)
(* A model of btmonParser.py: the BtmonParser object (its device map, the  *)
(* merge performed by _addDeviceRecord, the line loop of parse, report and *)
(* summarise) and the driver main.                                         *)
(*                                                                         *)
(* Python strings are modelled as sequences of one-character strings, so   *)
(* that strip, upper, float(), int() and the regular expressions are       *)
(* computed character by character.                                        *)
(***************************************************************************)
EXTENDS Integers, Sequences, FiniteSets, TLC

(***************************************************************************)
(* Bounds of the model.                                                    *)
(***************************************************************************)
\* Fractional decimal digits a modelled float keeps.
FracDigits == 1

(***************************************************************************)
(* Characters and strings.                                                 *)
(***************************************************************************)

DigitValues ==
    "0" :> 0 @@ "1" :> 1 @@ "2" :> 2 @@ "3" :> 3 @@ "4" :> 4 @@
    "5" :> 5 @@ "6" :> 6 @@ "7" :> 7 @@ "8" :> 8 @@ "9" :> 9

IsDigit(c) == c \in DOMAIN DigitValues

DigitVal(c) == DigitValues[c]

\* str.strip(), str.rstrip(), str.lstrip() and float()/int() drop these.
IsSpace(c) == c \in {" ", "\t", "\n", "\r"}

\* str.upper() on the letters.
UpperCase ==
    "a" :> "A" @@ "b" :> "B" @@ "c" :> "C" @@ "d" :> "D" @@ "e" :> "E" @@
    "f" :> "F" @@ "g" :> "G" @@ "h" :> "H" @@ "i" :> "I" @@ "j" :> "J" @@
    "k" :> "K" @@ "l" :> "L" @@ "m" :> "M" @@ "n" :> "N" @@ "o" :> "O" @@
    "p" :> "P" @@ "q" :> "Q" @@ "r" :> "R" @@ "s" :> "S" @@ "t" :> "T" @@
    "u" :> "U" @@ "v" :> "V" @@ "w" :> "W" @@ "x" :> "X" @@ "y" :> "Y" @@
    "z" :> "Z"

\* str.upper() on one character.
UpperChar(c) == IF c \in DOMAIN UpperCase THEN UpperCase[c] ELSE c

\* str.upper()
Upper(s) == [i \in 1..Len(s) |-> UpperChar(s[i])]

RECURSIVE LStrip(_)
\* str.lstrip()
LStrip(s) ==
    IF s # <<>> /\ IsSpace(Head(s)) THEN LStrip(Tail(s)) ELSE s

RECURSIVE RStrip(_)
\* str.rstrip()
RStrip(s) ==
    IF s # <<>> /\ IsSpace(s[Len(s)]) THEN RStrip(SubSeq(s, 1, Len(s) - 1)) ELSE s

\* str.strip()
Strip(s) == LStrip(RStrip(s))

\* s[i..] of a string, empty when i is past its end.
From(s, i) == SubSeq(s, i, Len(s))

StartsWith(s, p) == Len(s) >= Len(p) /\ SubSeq(s, 1, Len(p)) = p

RECURSIVE Pow10(_)
Pow10(k) == IF k = 0 THEN 1 ELSE 10 * Pow10(k - 1)

RECURSIVE DecimalValue(_)
\* The number a string of decimal digits denotes.
DecimalValue(ds) ==
    IF ds = <<>> THEN 0
    ELSE 10 * DecimalValue(SubSeq(ds, 1, Len(ds) - 1)) + DigitVal(ds[Len(ds)])

AllDigits(s) == \A i \in 1..Len(s) : IsDigit(s[i])

(***************************************************************************)
(* int(rssi): surrounding whitespace is dropped, one optional sign, then   *)
(* at least one decimal digit; anything else raises ValueError.            *)
(***************************************************************************)
ParseInt(str) ==
    LET s      == Strip(str)
        signed == s # <<>> /\ Head(s) \in {"-", "+"}
        body   == IF signed THEN Tail(s) ELSE s
    IN  IF body # <<>> /\ AllDigits(body)
        THEN [ok |-> TRUE,
              val |-> IF signed /\ Head(s) = "-" THEN 0 - DecimalValue(body)
                      ELSE DecimalValue(body)]
        ELSE [ok |-> FALSE, val |-> 0]

(***************************************************************************)
(* float(timestamp) on decimal numerals: surrounding whitespace is         *)
(* dropped, one optional sign, digits with at most one point and at least  *)
(* one digit; anything else (the empty string too) raises ValueError.      *)
(* A float is the record [w, f] of its floor w and its fraction f in       *)
(* units of 10^-FracDigits, so two floats are equal exactly when the       *)
(* records are, and ordered as FloatLess orders them.                      *)
(***************************************************************************)
RECURSIVE IndexFrom(_, _, _)
\* The first index >= i at which c stands in s, 0 if there is none.
IndexFrom(s, c, i) ==
    IF i > Len(s) THEN 0 ELSE IF s[i] = c THEN i ELSE IndexFrom(s, c, i + 1)

PointAt(s) == IndexFrom(s, ".", 1)

\* The first FracDigits digits of a fraction, as a number of 10^-FracDigits.
FracValue(ds) ==
    LET kept == SubSeq(ds, 1, IF Len(ds) < FracDigits THEN Len(ds) ELSE FracDigits)
    IN  DecimalValue(kept) * Pow10(FracDigits - Len(kept))

ParseFloat(str) ==
    LET s      == Strip(str)
        signed == s # <<>> /\ Head(s) \in {"-", "+"}
        neg    == signed /\ Head(s) = "-"
        body   == IF signed THEN Tail(s) ELSE s
        p      == PointAt(body)
        whole  == IF p = 0 THEN body ELSE SubSeq(body, 1, p - 1)
        frac   == IF p = 0 THEN <<>> ELSE From(body, p + 1)
        w      == DecimalValue(whole)
        f      == FracValue(frac)
    IN  IF AllDigits(whole) /\ AllDigits(frac) /\ Len(whole) + Len(frac) > 0
        THEN [ok |-> TRUE,
              val |-> IF ~neg THEN [w |-> w, f |-> f]
                      ELSE IF f = 0 THEN [w |-> 0 - w, f |-> 0]
                      ELSE [w |-> 0 - w - 1, f |-> Pow10(FracDigits) - f]]
        ELSE [ok |-> FALSE, val |-> [w |-> 0, f |-> 0]]

\* a < b on floats
FloatLess(a, b) == a.w < b.w \/ (a.w = b.w /\ a.f < b.f)

\* abs() on integers
Abs(n) == IF n < 0 THEN 0 - n ELSE n

(***************************************************************************)
(* State.                                                                  *)
(*   devices       self.devices: normalized MAC -> Device Record           *)
(*   pc            where main stands: "parse" (about to call bp.parse on   *)
(*                 the next input file), "lines" (in the line loop),       *)
(*                 "report", "prompt" (in _yesNo, waiting for the answer), *)
(*                 "open", "rows", "write" (in bp.report),                 *)
(*                 "summary", and the ends "done" (returned), "exited"     *)
(*                 (sys.exit() after Warning or KeyboardInterrupt) and     *)
(*                 "crashed" (an exception main does not catch);           *)
(*                 "object" in SpecMerge, which drives the object alone    *)
(*   exc           the exception that was raised, "none" if there is none  *)
(*   lines         f.readlines() of the file being parsed, each line by    *)
(*                 its name in LineText                                    *)
(*   lineIdx       the index in lines of the line the loop is about to     *)
(*                 process                                                 *)
(*   timestamp, mac, name, manufacturer, rssi                              *)
(*                 the five accumulators of parse                          *)
(*   outFile       the output file on disk: whether report has opened it   *)
(*                 for writing (until then it is absent, or holds its      *)
(*                 previous content) and the rows that have reached it     *)
(*   rows          the rows report has built in memory                     *)
(*   printed       the count main has printed from summarise(), -1 before  *)
(*   history       the contents of the files that parse has been called    *)
(*                 on, the last being the one in the loop; kept while      *)
(*                 main parses (not program state)                         *)
(*   emitted       the candidates parse has handed to _addDeviceRecord     *)
(*                 while in the file being parsed, in the order of the     *)
(*                 calls (not program state; read by the properties)       *)
(*   seen          per normalized MAC, what has been merged for it so far  *)
(*                 (not program state; read by the properties)             *)
(***************************************************************************)
VARIABLES devices, pc, exc, lines, lineIdx, timestamp, mac, name, manufacturer,
          rssi, outFile, rows, printed, history, emitted, seen

accumulators == <<timestamp, mac, name, manufacturer, rssi>>

parserVars ==
    <<lines, lineIdx, timestamp, mac, name, manufacturer, rssi, history, emitted>>

reportVars == <<outFile, rows, printed>>

vars == <<devices, pc, exc, parserVars, reportVars, seen>>

\* The sentinel _addDeviceRecord stores for a candidate without rssi.
UnknownRssi == 5000

(***************************************************************************)
(* _addDeviceRecord(timestamp, mac, name, manufacturer, rssi) on the map   *)
(* devs: the exception it raises ("none" when it returns) and the map it   *)
(* leaves.  float() and int() raise before the map is touched.             *)
(***************************************************************************)
\* Faulty variant: the new minimum is stored in lastTime.
UpdateRecordWrongBound(rec, t, nm, mf, r) ==
    LET timed  == IF FloatLess(t, rec.firstTime) THEN [rec EXCEPT !.lastTime = t]
                  ELSE IF FloatLess(rec.lastTime, t) THEN [rec EXCEPT !.lastTime = t]
                  ELSE rec
        named  == IF timed.name = <<>> THEN [timed EXCEPT !.name = nm] ELSE timed
        made   == IF named.manufacturer = <<>>
                  THEN [named EXCEPT !.manufacturer = mf] ELSE named
    IN  IF Abs(r) < Abs(made.rssi) THEN [made EXCEPT !.rssi = r] ELSE made

\* Faulty variant: the maximum is compared with firstTime instead of lastTime.
UpdateRecordWrongCompare(rec, t, nm, mf, r) ==
    LET timed  == IF FloatLess(t, rec.firstTime) THEN [rec EXCEPT !.firstTime = t]
                  ELSE IF FloatLess(rec.firstTime, t) THEN [rec EXCEPT !.lastTime = t]
                  ELSE rec
        named  == IF timed.name = <<>> THEN [timed EXCEPT !.name = nm] ELSE timed
        made   == IF named.manufacturer = <<>>
                  THEN [named EXCEPT !.manufacturer = mf] ELSE named
    IN  IF Abs(r) < Abs(made.rssi) THEN [made EXCEPT !.rssi = r] ELSE made

\* Faulty variant: a non-empty manufacturer of the candidate overwrites the stored one.
UpdateRecordLastWins(rec, t, nm, mf, r) ==
    LET timed  == IF FloatLess(t, rec.firstTime) THEN [rec EXCEPT !.firstTime = t]
                  ELSE IF FloatLess(rec.lastTime, t) THEN [rec EXCEPT !.lastTime = t]
                  ELSE rec
        named  == IF timed.name = <<>> THEN [timed EXCEPT !.name = nm] ELSE timed
        made   == IF mf # <<>>
                  THEN [named EXCEPT !.manufacturer = mf] ELSE named
    IN  IF Abs(r) < Abs(made.rssi) THEN [made EXCEPT !.rssi = r] ELSE made

\* Faulty variant: the rssi values are compared without abs().
UpdateRecordNoAbs(rec, t, nm, mf, r) ==
    LET timed  == IF FloatLess(t, rec.firstTime) THEN [rec EXCEPT !.firstTime = t]
                  ELSE IF FloatLess(rec.lastTime, t) THEN [rec EXCEPT !.lastTime = t]
                  ELSE rec
        named  == IF timed.name = <<>> THEN [timed EXCEPT !.name = nm] ELSE timed
        made   == IF named.manufacturer = <<>>
                  THEN [named EXCEPT !.manufacturer = mf] ELSE named
    IN  IF r < made.rssi THEN [made EXCEPT !.rssi = r] ELSE made

\* Faulty variant: a timestamp below firstTime moves both bounds.
UpdateRecordMovesBoth(rec, t, nm, mf, r) ==
    LET timed  == IF FloatLess(t, rec.firstTime)
                  THEN [rec EXCEPT !.firstTime = t, !.lastTime = t]
                  ELSE IF FloatLess(rec.lastTime, t) THEN [rec EXCEPT !.lastTime = t]
                  ELSE rec
        named  == IF timed.name = <<>> THEN [timed EXCEPT !.name = nm] ELSE timed
        made   == IF named.manufacturer = <<>>
                  THEN [named EXCEPT !.manufacturer = mf] ELSE named
    IN  IF Abs(r) < Abs(made.rssi) THEN [made EXCEPT !.rssi = r] ELSE made

UpdateRecord(rec, t, nm, mf, r) ==
    LET timed  == IF FloatLess(t, rec.firstTime) THEN [rec EXCEPT !.firstTime = t]
                  ELSE IF FloatLess(rec.lastTime, t) THEN [rec EXCEPT !.lastTime = t]
                  ELSE rec
        named  == IF timed.name = <<>> THEN [timed EXCEPT !.name = nm] ELSE timed
        made   == IF named.manufacturer = <<>>
                  THEN [named EXCEPT !.manufacturer = mf] ELSE named
    IN  IF Abs(r) < Abs(made.rssi) THEN [made EXCEPT !.rssi = r] ELSE made

\* Faulty variant: a new record starts without the candidate's name.
NewRecordNoName(t, nm, mf, r) ==
    [firstTime |-> t, lastTime |-> t, name |-> <<>>,
     manufacturer |-> mf, rssi |-> r]

NewRecord(t, nm, mf, r) ==
    [firstTime |-> t, lastTime |-> t, name |-> nm,
     manufacturer |-> mf, rssi |-> r]

\* Faulty variant: the address is trimmed but not upper-cased.
NormalizeMacNoUpper(address) == Strip(address)

\* mac.strip().upper()
NormalizeMac(address) == Upper(Strip(address))

\* Faulty variant: timestamp and rssi are converted before the address is looked at.
AddDeviceRecordParseFirst(devs, c) ==
    LET key == NormalizeMac(c.mac)
        t   == ParseFloat(c.timestamp)
        r   == IF c.rssi # <<>> THEN ParseInt(c.rssi) ELSE [ok |-> TRUE, val |-> UnknownRssi]
    IN  IF ~t.ok THEN [exc |-> "ValueError", devices |-> devs]
        ELSE IF ~r.ok THEN [exc |-> "ValueError", devices |-> devs]
        ELSE IF key = <<>> THEN [exc |-> "none", devices |-> devs]
        ELSE IF key \in DOMAIN devs
        THEN [exc |-> "none",
              devices |-> [devs EXCEPT ![key] =
                               UpdateRecord(devs[key], t.val, c.name, c.manufacturer, r.val)]]
        ELSE [exc |-> "none",
              devices |-> [k \in DOMAIN devs \cup {key} |->
                               IF k = key
                               THEN NewRecord(t.val, c.name, c.manufacturer, r.val)
                               ELSE devs[k]]]

AddDeviceRecord(devs, c) ==
    LET key == NormalizeMac(c.mac)
        t   == ParseFloat(c.timestamp)
        r   == IF c.rssi # <<>> THEN ParseInt(c.rssi) ELSE [ok |-> TRUE, val |-> UnknownRssi]
    IN  IF key = <<>> THEN [exc |-> "none", devices |-> devs]
        ELSE IF ~t.ok THEN [exc |-> "ValueError", devices |-> devs]
        ELSE IF ~r.ok THEN [exc |-> "ValueError", devices |-> devs]
        ELSE IF key \in DOMAIN devs
        THEN [exc |-> "none",
              devices |-> [devs EXCEPT ![key] =
                               UpdateRecord(devs[key], t.val, c.name, c.manufacturer, r.val)]]
        ELSE [exc |-> "none",
              devices |-> [k \in DOMAIN devs \cup {key} |->
                               IF k = key
                               THEN NewRecord(t.val, c.name, c.manufacturer, r.val)
                               ELSE devs[k]]]

(***************************************************************************)
(* The regular expressions of parse, on a line whose trailing whitespace   *)
(* (and, for the field patterns, leading whitespace) has been stripped.    *)
(* Each returns whether it matched and the text of its capturing group.    *)
(***************************************************************************)
NoMatch == [found |-> FALSE, text |-> <<>>]

Match(text) == [found |-> TRUE, text |-> text]

\* re.match(r'^\S', line)
IsBoundary(line) == line # <<>> /\ ~IsSpace(line[1])

RECURSIVE FindFrom(_, _, _)
\* The first index >= i at which the string p stands in s, 0 if there is none.
FindFrom(s, p, i) ==
    IF i + Len(p) - 1 > Len(s) THEN 0
    ELSE IF SubSeq(s, i, i + Len(p) - 1) = p THEN i
    ELSE FindFrom(s, p, i + 1)

\* re.search(r'] (.+?)$', line): the leftmost "] " that text follows; the
\* lazy group then has to run to the end of the line.
TimestampOf(line) ==
    LET i == FindFrom(line, <<"]", " ">>, 1)
    IN  IF i # 0 /\ i + 2 <= Len(line) THEN Match(From(line, i + 2)) ELSE NoMatch

AddressLabel == <<"A", "d", "d", "r", "e", "s", "s", ":", " ">>
LePrefix == <<"L", "E", " ">>
BrEdrPrefix == <<"B", "R", "/", "E", "D", "R", " ">>
NameLabel == <<"N", "a", "m", "e", " ", "(", "c", "o", "m", "p", "l", "e", "t", "e", ")", ":", " ">>
CompanyLabel == <<"C", "o", "m", "p", "a", "n", "y", ":", " ">>
RssiLabel == <<"R", "S", "S", "I", ":", " ">>
DbmSuffix == <<" ", "d", "B", "m">>

\* (.+?) followed by the string p: the group ends before the first p that
\* starts at the second character of rest or later.
LazyUntil(rest, p) ==
    LET k == FindFrom(rest, p, 2)
    IN  IF k # 0 THEN Match(SubSeq(rest, 1, k - 1)) ELSE NoMatch

\* re.match(r'^((LE )|(BR/EDR ))?Address: (.+?) ', line), group 4
AddressOf(line) ==
    LET body == IF StartsWith(line, LePrefix) THEN From(line, Len(LePrefix) + 1)
                ELSE IF StartsWith(line, BrEdrPrefix) THEN From(line, Len(BrEdrPrefix) + 1)
                ELSE line
    IN  IF StartsWith(body, AddressLabel)
        THEN LazyUntil(From(body, Len(AddressLabel) + 1), <<" ">>)
        ELSE NoMatch

\* re.match(r'^Name \(complete\): (.+?)$', line), group 1
NameOf(line) ==
    IF StartsWith(line, NameLabel) /\ Len(line) > Len(NameLabel)
    THEN Match(From(line, Len(NameLabel) + 1))
    ELSE NoMatch

\* re.match(r'^Company: (.+?) \((.+?)\)$', line), group 1: the line has to
\* end with ")" at least one character after the " (" that ends the group.
CompanyOf(line) ==
    LET rest == From(line, Len(CompanyLabel) + 1)
        k    == FindFrom(rest, <<" ", "(">>, 2)
    IN  IF /\ StartsWith(line, CompanyLabel)
           /\ k # 0
           /\ k + 3 <= Len(rest)
           /\ rest[Len(rest)] = ")"
        THEN Match(SubSeq(rest, 1, k - 1))
        ELSE NoMatch

\* re.match(r'^RSSI: (.+?) dBm', line), group 1
RssiOf(line) ==
    IF StartsWith(line, RssiLabel)
    THEN LazyUntil(From(line, Len(RssiLabel) + 1), DbmSuffix)
    ELSE NoMatch

(***************************************************************************)
(* The history of the merges: for every normalized MAC, the timestamps     *)
(* merged for it, the distinct non-empty names and manufacturers in the    *)
(* order they were first merged, and the magnitudes of the rssi values     *)
(* merged (an absent rssi counts as the sentinel).                         *)
(***************************************************************************)
Offer(sq, x) ==
    IF x = <<>> \/ (\E i \in 1..Len(sq) : sq[i] = x) THEN sq ELSE Append(sq, x)

NoHistory == [stamps |-> {}, names |-> <<>>, manufacturers |-> <<>>, magnitudes |-> {}]

Record(h, c) ==
    LET key  == NormalizeMac(c.mac)
        old  == IF key \in DOMAIN h THEN h[key] ELSE NoHistory
        mag  == IF c.rssi = <<>> THEN UnknownRssi ELSE Abs(ParseInt(c.rssi).val)
        new  == [stamps        |-> old.stamps \cup {ParseFloat(c.timestamp).val},
                 names         |-> Offer(old.names, c.name),
                 manufacturers |-> Offer(old.manufacturers, c.manufacturer),
                 magnitudes    |-> old.magnitudes \cup {mag}]
    IN  [k \in DOMAIN h \cup {key} |-> IF k = key THEN new ELSE h[k]]

\* The history after the call of _addDeviceRecord on c that ended as res.
Remember(h, c, res) ==
    IF res.exc = "none" /\ NormalizeMac(c.mac) # <<>> THEN Record(h, c) ELSE h

(***************************************************************************)
(* Candidates handed to _addDeviceRecord.                                  *)
(***************************************************************************)
Ts10 == <<"1", ".", "0">>
Ts25 == <<"2", ".", "5">>
Ts30 == <<"3", ".", "0">>
TsBad == <<"x">>
MacLower == <<"a", "a", ":", "0", "1">>
MacUpper == <<"A", "A", ":", "0", "1">>
MacOther == <<"B", "B", ":", "0", "2">>
MacPadded == <<" ", "A", "A", ":", "0", "1">>
MacBlank == <<" ">>
Alice == <<"A", "l", "i", "c", "e">>
Bob == <<"B", "o", "b">>
Acme == <<"A", "c", "m", "e">>
Apex == <<"A", "p", "e", "x">>
Rssi80 == <<"-", "8", "0">>
Rssi45 == <<"-", "4", "5">>
Rssi90 == <<"-", "9", "0">>
RssiBad == <<"l", "o", "w">>

Cand(ts, macs, names, manufacturers, rssis) ==
    [timestamp : ts, mac : macs, name : names, manufacturer : manufacturers, rssi : rssis]

\* Sightings of one device.
Sightings ==
    Cand({Ts10, Ts25, Ts30}, {MacLower}, {<<>>, Alice, Bob},
         {<<>>, Acme, Apex}, {<<>>, Rssi80, Rssi45, Rssi90})

\* Sightings of the same device with its address spelled in upper case.
UpperSightings ==
    Cand({Ts25}, {MacUpper, MacPadded}, {<<>>, Bob}, {<<>>}, {<<>>, Rssi90})

\* Sightings of a second device.
OtherSightings ==
    Cand({Ts30}, {MacOther}, {<<>>}, {<<>>}, {<<>>})

\* Blocks without an address, or with a blank one.
Addressless ==
    Cand({<<>>, TsBad, Ts25}, {<<>>, MacBlank}, {<<>>, Alice}, {<<>>}, {<<>>, RssiBad})

\* Blocks with an address whose timestamp or rssi does not parse.
Malformed ==
    Cand({<<>>, TsBad}, {MacUpper}, {<<>>}, {<<>>}, {<<>>, Rssi45})
    \cup Cand({Ts25}, {MacUpper}, {<<>>}, {<<>>}, {RssiBad})

Candidates ==
    Sightings \cup UpperSightings \cup OtherSightings \cup Addressless \cup Malformed

(***************************************************************************)
(* SpecMerge: one BtmonParser object, _addDeviceRecord called on it with   *)
(* any candidate, any number of times.                                     *)
(***************************************************************************)
\* The output file before report opens it.
Untouched == [opened |-> FALSE, rows |-> <<>>]

\* BtmonParser(): an empty map; nothing parsed, nothing written.
NewParser ==
    /\ devices = <<>>
    /\ exc = "none"
    /\ lines = <<>>
    /\ lineIdx = 0
    /\ timestamp = <<>>
    /\ mac = <<>>
    /\ name = <<>>
    /\ manufacturer = <<>>
    /\ rssi = <<>>
    /\ outFile = Untouched
    /\ rows = <<>>
    /\ printed = 0 - 1
    /\ history = <<>>
    /\ emitted = <<>>
    /\ seen = <<>>

InitMerge == NewParser /\ pc = "object"

Call(c) ==
    LET res == AddDeviceRecord(devices, c)
    IN  /\ exc = "none"
        /\ devices' = res.devices
        /\ exc' = res.exc
        /\ seen' = Remember(seen, c, res)
        /\ UNCHANGED <<pc, parserVars, reportVars>>

NextMerge == \E c \in Candidates : Call(c)

SpecMerge == InitMerge /\ [][NextMerge]_vars

(***************************************************************************)
(* The lines of the input files.                                           *)
(***************************************************************************)
Indent == <<" ", " ">>
\* readlines() keeps the newline that ends a line.
Eol == <<"\n">>
EventHead == <<">", " ", "E", "v", "t", " ", "[", "h", "c", "i", "0", "]", " ">>

Ts1680000000 == <<"1", "6", "8", "0", "0", "0", "0", "0", "0", "0", ".", "0">>
MacFull == <<"A", "A", ":", "B", "B", ":", "C", "C", ":", "D", "D", ":", "E", "E", ":", "F", "F">>
MacFullLower == <<"a", "a", ":", "b", "b", ":", "c", "c", ":", "d", "d", ":", "e", "e", ":", "f", "f">>
TestDevice == <<"T", "e", "s", "t", "D", "e", "v", "i", "c", "e">>
Rssi67 == <<"-", "6", "7">>
Rssi50 == <<"-", "5", "0">>
Public == <<" ", "(", "p", "u", "b", "l", "i", "c", ")">>

\* Further devices and signal strengths, for a report of several rows.
MacC3 == <<"C", "C", ":", "0", "3">>
MacD4 == <<"D", "D", ":", "0", "4">>
MacE5 == <<"E", "E", ":", "0", "5">>
MacF6 == <<"F", "F", ":", "0", "6">>
MacAB7 == <<"A", "B", ":", "0", "7">>
Rssi9 == <<"-", "9">>
Rssi255 == <<"-", "2", "5", "5">>
Rssi256 == <<"-", "2", "5", "6">>

AddressLineOf(m) == Indent \o AddressLabel \o m \o <<" ", "(", "P", ")">> \o Eol
RssiLineOf(r) == Indent \o RssiLabel \o r \o DbmSuffix \o Eol

\* The text of the lines, by the names under which the files hold them.
LineText ==
    [ \* a block boundary that ends in "] 1.0"
      BoundaryTimed   |-> EventHead \o Ts10 \o Eol,
      \* a block boundary without "] <timestamp>"
      BoundaryBare    |-> <<"=", " ", "N", "o", "t", "e">> \o Eol,
      AddressLine     |-> Indent \o AddressLabel \o MacLower \o <<" ", "(", "P", ")">> \o Eol,
      LeAddressLine   |-> Indent \o LePrefix \o AddressLabel \o MacOther
                              \o <<" ", "(", "R", ")">> \o Eol,
      NameLine        |-> Indent \o NameLabel \o Alice \o Eol,
      CompanyLine     |-> Indent \o CompanyLabel \o Acme \o <<" ", "(", "7", "6", ")">> \o Eol,
      RssiLine        |-> Indent \o RssiLabel \o Rssi45 \o DbmSuffix
                              \o <<" ", "(", "0", "x", "d", "3", ")">> \o Eol,
      FlagsLine       |-> Indent \o <<"F", "l", "a", "g", "s", ":", " ", "0", "x", "0", "6">> \o Eol,
      \* a line with nothing but its newline
      BlankLine       |-> Eol,
      \* a boundary with the later timestamp 2.5
      BoundaryLater   |-> EventHead \o Ts25 \o Eol,
      \* a second name, manufacturer and signal strength
      NameLineBob     |-> Indent \o NameLabel \o Bob \o Eol,
      CompanyLineApex |-> Indent \o CompanyLabel \o Apex \o <<" ", "(", "9", ")">> \o Eol,
      RssiLine90      |-> RssiLineOf(Rssi90),
      \* the devices of the report scenario
      AddressC3       |-> AddressLineOf(MacC3),
      AddressD4       |-> AddressLineOf(MacD4),
      AddressE5       |-> AddressLineOf(MacE5),
      AddressF6       |-> AddressLineOf(MacF6),
      AddressAB7      |-> AddressLineOf(MacAB7),
      RssiLine9       |-> RssiLineOf(Rssi9),
      RssiLine80      |-> RssiLineOf(Rssi80),
      RssiLine255     |-> RssiLineOf(Rssi255),
      RssiLine256     |-> RssiLineOf(Rssi256),
      RssiLine50      |-> RssiLineOf(Rssi50),
      \* the lines of the end-to-end scenario
      E2EBoundary     |-> EventHead \o Ts1680000000 \o Eol,
      E2EAddress      |-> Indent \o AddressLabel \o MacFull \o Public \o Eol,
      E2ERssi         |-> Indent \o RssiLabel \o Rssi67 \o DbmSuffix \o Eol,
      E2EName         |-> Indent \o NameLabel \o TestDevice \o Eol,
      E2EAddressLower |-> Indent \o AddressLabel \o MacFullLower \o Public \o Eol,
      E2ERssiStronger |-> Indent \o RssiLabel \o Rssi50 \o DbmSuffix \o Eol ]

Lines ==
    {"BoundaryTimed", "BoundaryBare", "AddressLine", "LeAddressLine", "NameLine",
     "CompanyLine", "RssiLine", "BlankLine"}

\* The files of the end-to-end scenario: two blocks for one device, the
\* second with the address in lower case and a stronger signal, without and
\* with a further boundary line after the second block.
EndToEndFile ==
    <<"E2EBoundary", "E2EAddress", "E2ERssi", "E2EName",
      "E2EBoundary", "E2EAddressLower", "E2ERssiStronger">>

EndToEndFileClosed == Append(EndToEndFile, "BoundaryBare")

\* One block that names two devices and gives every field twice, with a
\* line no pattern matches in between.
LastWinsFile ==
    <<"BoundaryTimed", "AddressLine", "NameLine", "RssiLine", "CompanyLine", "FlagsLine",
      "LeAddressLine", "NameLineBob", "RssiLine90", "CompanyLineApex", "BoundaryBare">>

\* Two files for one run.  The first ends inside a block for a second
\* device; the second starts with a field line, then sights the first
\* device again, later and under another name.
CrossFileFirst ==
    <<"BoundaryTimed", "AddressLine", "NameLine", "RssiLine",
      "BoundaryTimed", "LeAddressLine", "CompanyLine", "RssiLine90">>

CrossFileSecond ==
    <<"NameLineBob", "BoundaryLater", "AddressLine", "NameLineBob", "BoundaryBare">>

\* Seven devices whose signal strengths are -9, -80, absent, -255, -256, -50
\* and -45, one of them with a name and one with a manufacturer.
ReportFile ==
    <<"BoundaryTimed", "AddressLine", "RssiLine9", "NameLine",
      "BoundaryTimed", "LeAddressLine", "RssiLine80", "CompanyLine",
      "BoundaryTimed", "AddressC3",
      "BoundaryTimed", "AddressD4", "RssiLine255",
      "BoundaryTimed", "AddressE5", "RssiLine256",
      "BoundaryTimed", "AddressF6", "RssiLine50",
      "BoundaryTimed", "AddressAB7", "RssiLine",
      "BoundaryBare">>

ScenarioFiles ==
    {EndToEndFile, EndToEndFileClosed, LastWinsFile, CrossFileFirst, ReportFile}

\* Lines a run reads from files other than the scenario files, and the
\* input files of a run.
MaxLines == 4
MaxFiles == 2

RECURSIVE FilesOfLength(_)
FilesOfLength(n) ==
    IF n = 0 THEN {<<>>}
    ELSE {Append(f, l) : f \in FilesOfLength(n - 1), l \in Lines}

RECURSIVE LinesIn(_)
LinesIn(files) == IF files = <<>> THEN 0 ELSE Len(Head(files)) + LinesIn(Tail(files))

\* The contents the next input file can have, after the files already read.
InputFiles(read) ==
    UNION {FilesOfLength(n) : n \in 0..(MaxLines - LinesIn(read))}
    \cup (IF read = <<>> THEN ScenarioFiles ELSE {})
    \cup (IF read = <<CrossFileFirst>> THEN {CrossFileSecond} ELSE {})

(***************************************************************************)
(* parse: one iteration of the line loop, with the accumulators acc and    *)
(* the map devs.  A boundary line hands the accumulators to                *)
(* _addDeviceRecord, empties them and takes its own timestamp; any other   *)
(* line sets the accumulator of the first pattern that matches it.  The    *)
(* result is the exception raised ("none" if none), the map and the        *)
(* accumulators.                                                           *)
(***************************************************************************)
Empty == [timestamp |-> <<>>, mac |-> <<>>, name |-> <<>>, manufacturer |-> <<>>,
          rssi |-> <<>>]

\* Faulty variant: a line that no pattern matches empties the name and the
\* manufacturer.
FieldLineMissClears(acc, line) ==
    IF AddressOf(line).found THEN [acc EXCEPT !.mac = AddressOf(line).text]
    ELSE IF NameOf(line).found THEN [acc EXCEPT !.name = NameOf(line).text]
    ELSE IF CompanyOf(line).found THEN [acc EXCEPT !.manufacturer = CompanyOf(line).text]
    ELSE IF RssiOf(line).found THEN [acc EXCEPT !.rssi = RssiOf(line).text]
    ELSE [acc EXCEPT !.name = <<>>, !.manufacturer = <<>>]

\* Faulty variant: a field line sets its accumulator only while it is empty.
FieldLineFirstWins(acc, line) ==
    IF AddressOf(line).found
    THEN IF acc.mac = <<>> THEN [acc EXCEPT !.mac = AddressOf(line).text] ELSE acc
    ELSE IF NameOf(line).found
    THEN IF acc.name = <<>> THEN [acc EXCEPT !.name = NameOf(line).text] ELSE acc
    ELSE IF CompanyOf(line).found
    THEN IF acc.manufacturer = <<>>
         THEN [acc EXCEPT !.manufacturer = CompanyOf(line).text] ELSE acc
    ELSE IF RssiOf(line).found
    THEN IF acc.rssi = <<>> THEN [acc EXCEPT !.rssi = RssiOf(line).text] ELSE acc
    ELSE acc

FieldLine(acc, line) ==
    IF AddressOf(line).found THEN [acc EXCEPT !.mac = AddressOf(line).text]
    ELSE IF NameOf(line).found THEN [acc EXCEPT !.name = NameOf(line).text]
    ELSE IF CompanyOf(line).found THEN [acc EXCEPT !.manufacturer = CompanyOf(line).text]
    ELSE IF RssiOf(line).found THEN [acc EXCEPT !.rssi = RssiOf(line).text]
    ELSE acc

\* Faulty variant: a boundary line replaces the timestamp and keeps the other
\* four accumulators.
ProcessLineKeepsFields(devs, acc, raw) ==
    LET line == RStrip(raw)
        res  == AddDeviceRecord(devs, acc)
    IN  IF IsBoundary(line)
        THEN IF res.exc # "none"
             THEN [exc |-> res.exc, devices |-> devs, acc |-> acc]
             ELSE [exc |-> "none", devices |-> res.devices,
                   acc |-> [acc EXCEPT !.timestamp = TimestampOf(line).text]]
        ELSE [exc |-> "none", devices |-> devs, acc |-> FieldLine(acc, LStrip(line))]

ProcessLine(devs, acc, raw) ==
    LET line == RStrip(raw)
        res  == AddDeviceRecord(devs, acc)
    IN  IF IsBoundary(line)
        THEN IF res.exc # "none"
             THEN [exc |-> res.exc, devices |-> devs, acc |-> acc]
             ELSE [exc |-> "none", devices |-> res.devices,
                   acc |-> [Empty EXCEPT !.timestamp = TimestampOf(line).text]]
        ELSE [exc |-> "none", devices |-> devs, acc |-> FieldLine(acc, LStrip(line))]

(***************************************************************************)
(* report: the rows of the table, sorted by the text "<rssi> <mac>".       *)
(***************************************************************************)
Unknown == <<"U", "n", "k", "n", "o", "w", "n">>

\* The largest magnitude of an rssi that report shows as a number.
MaxShownRssi == 255

RECURSIVE NatStr(_)
\* The decimal digits of a natural number.
NatStr(n) ==
    LET d == CHOOSE c \in DOMAIN DigitValues : DigitValues[c] = n % 10
    IN  IF n < 10 THEN <<d>> ELSE Append(NatStr(n \div 10), d)

\* f"{n}" of an integer
IntStr(n) == IF n < 0 THEN <<"-">> \o NatStr(0 - n) ELSE NatStr(n)

\* Faulty variant: a magnitude of 255 is already shown as "Unknown".
RowOfUnknownFrom255(devs, k) ==
    <<k,
      devs[k].firstTime,
      devs[k].lastTime,
      IF devs[k].name # <<>> THEN devs[k].name ELSE k,
      IF devs[k].manufacturer # <<>> THEN devs[k].manufacturer ELSE Unknown,
      IF Abs(devs[k].rssi) >= MaxShownRssi THEN Unknown ELSE IntStr(devs[k].rssi)>>

\* The row of the record stored under mac k: mac, firstTime, lastTime, name,
\* manufacturer, rssi.  The rssi cell is held as the text the sort key and
\* the table show for it.
RowOf(devs, k) ==
    <<k,
      devs[k].firstTime,
      devs[k].lastTime,
      IF devs[k].name # <<>> THEN devs[k].name ELSE k,
      IF devs[k].manufacturer # <<>> THEN devs[k].manufacturer ELSE Unknown,
      IF Abs(devs[k].rssi) > MaxShownRssi THEN Unknown ELSE IntStr(devs[k].rssi)>>

\* Faulty variant: the rows are sorted by their MAC alone.
SortKeyMacOnly(row) == row[1]

\* f"{x[-1]} {x[0]}"
SortKey(row) == row[Len(row)] \o <<" ">> \o row[1]

\* Printable ASCII characters in code point order (without the double quote,
\* the backslash and the backquote, which no string of the model holds).
Ascii ==
    <<" ", "!", "#", "$", "%", "&", "'", "(", ")", "*", "+", ",", "-", ".", "/",
      "0", "1", "2", "3", "4", "5", "6", "7", "8", "9", ":", ";", "<", "=", ">", "?",
      "@", "A", "B", "C", "D", "E", "F", "G", "H", "I", "J", "K", "L", "M", "N", "O",
      "P", "Q", "R", "S", "T", "U", "V", "W", "X", "Y", "Z", "[", "]", "^", "_",
      "a", "b", "c", "d", "e", "f", "g", "h", "i", "j", "k", "l", "m", "n", "o",
      "p", "q", "r", "s", "t", "u", "v", "w", "x", "y", "z", "{", "|", "}", "~">>

\* The rank of c in code point order, which orders as ord(c) does.
Ord(c) == IndexFrom(Ascii, c, 1)

RECURSIVE StrLess(_, _)
\* a < b on strings: by the first character that differs, a proper prefix
\* being the smaller.
StrLess(a, b) ==
    IF b = <<>> THEN FALSE
    ELSE IF a = <<>> THEN TRUE
    ELSE IF Head(a) # Head(b) THEN Ord(Head(a)) < Ord(Head(b))
    ELSE StrLess(Tail(a), Tail(b))

RECURSIVE SortRows(_)
\* rows.sort(key=...): no two rows have the same key, since no two have the
\* same mac, so the order of the set of rows is determined.
SortRows(rowSet) ==
    IF rowSet = {} THEN <<>>
    ELSE LET least == CHOOSE r \in rowSet :
                          \A q \in rowSet \ {r} : StrLess(SortKey(r), SortKey(q))
         IN  <<least>> \o SortRows(rowSet \ {least})

Rows(devs) == SortRows({RowOf(devs, k) : k \in DOMAIN devs})

\* summarise(): the count in "Total bluetooth devices identified: <n>".
Summarise == Cardinality(DOMAIN devices)

(***************************************************************************)
(* Spec: main.  The input files are parsed in turn, then report writes the *)
(* table and the summary is printed.                                       *)
(***************************************************************************)
Init == NewParser /\ pc = "parse"

Candidate ==
    [timestamp |-> timestamp, mac |-> mac, name |-> name,
     manufacturer |-> manufacturer, rssi |-> rssi]

SetAccumulators(acc) ==
    /\ timestamp' = acc.timestamp
    /\ mac' = acc.mac
    /\ name' = acc.name
    /\ manufacturer' = acc.manufacturer
    /\ rssi' = acc.rssi

\* The process ends: what parse held is gone.
Leave(how, why) ==
    /\ pc' = how
    /\ exc' = why
    /\ lines' = <<>>
    /\ lineIdx' = 0
    /\ SetAccumulators(Empty)
    /\ history' = <<>>
    /\ emitted' = <<>>

\* Faulty variant: every file is parsed into a map of its own.
OpenFileNewMap ==
    /\ pc = "parse"
    /\ \E f \in InputFiles(history) :
           /\ lines' = f
           /\ history' = Append(history, f)
    /\ lineIdx' = 1
    /\ SetAccumulators(Empty)
    /\ emitted' = <<>>
    /\ pc' = "lines"
    /\ devices' = <<>>
    /\ UNCHANGED <<exc, reportVars, seen>>

\* bp.parse(file): the file is opened and read, the accumulators are empty.
OpenFile ==
    /\ pc = "parse"
    /\ \E f \in InputFiles(history) :
           /\ lines' = f
           /\ history' = Append(history, f)
    /\ lineIdx' = 1
    /\ SetAccumulators(Empty)
    /\ emitted' = <<>>
    /\ pc' = "lines"
    /\ UNCHANGED <<devices, exc, reportVars, seen>>

\* Faulty variant: a file that cannot be read is passed over and main goes
\* on to report.
OpenFailsGoesOn ==
    /\ pc = "parse"
    /\ Leave("report", "OSError")
    /\ UNCHANGED <<devices, reportVars, seen>>

\* The file cannot be opened or read: parse re-raises the OSError, which
\* main does not catch.
OpenFails ==
    /\ pc = "parse"
    /\ Leave("crashed", "OSError")
    /\ UNCHANGED <<devices, reportVars, seen>>

\* One iteration of the line loop.  A ValueError of _addDeviceRecord is
\* re-raised by parse and not caught by main.
ParseLine ==
    /\ pc = "lines"
    /\ lineIdx <= Len(lines)
    /\ LET res == ProcessLine(devices, Candidate, LineText[lines[lineIdx]])
       IN  IF res.exc # "none"
           THEN /\ Leave("crashed", res.exc)
                /\ UNCHANGED <<devices, seen>>
           ELSE /\ devices' = res.devices
                /\ SetAccumulators(res.acc)
                /\ lineIdx' = lineIdx + 1
                /\ seen' = IF IsBoundary(RStrip(LineText[lines[lineIdx]]))
                           THEN Remember(seen, Candidate, res) ELSE seen
                /\ emitted' = IF IsBoundary(RStrip(LineText[lines[lineIdx]]))
                              THEN Append(emitted, Candidate) ELSE emitted
                /\ UNCHANGED <<pc, exc, lines, history>>
    /\ UNCHANGED reportVars

\* Faulty variant: the accumulators left after the last line are handed to
\* _addDeviceRecord as one more candidate.
EndOfFileFlushes ==
    /\ pc = "lines"
    /\ lineIdx > Len(lines)
    /\ lines' = <<>>
    /\ lineIdx' = 0
    /\ SetAccumulators(Empty)
    /\ emitted' = <<>>
    /\ devices' = AddDeviceRecord(devices, Candidate).devices
    /\ seen' = Remember(seen, Candidate, AddDeviceRecord(devices, Candidate))
    /\ \/ /\ Len(history) < MaxFiles
          /\ pc' = "parse"
          /\ UNCHANGED history
       \/ /\ pc' = "report"
          /\ history' = <<>>
    /\ UNCHANGED <<exc, reportVars>>

\* The loop is over and parse returns; main goes on to the next input file
\* or, after the last, to report.
EndOfFile ==
    /\ pc = "lines"
    /\ lineIdx > Len(lines)
    /\ lines' = <<>>
    /\ lineIdx' = 0
    /\ SetAccumulators(Empty)
    /\ emitted' = <<>>
    /\ \/ /\ Len(history) < MaxFiles
          /\ pc' = "parse"
          /\ UNCHANGED history
       \/ /\ pc' = "report"
          /\ history' = <<>>
    /\ UNCHANGED <<devices, exc, reportVars, seen>>

\* KeyboardInterrupt outside the try of report: main logs and exits.
Interrupt ==
    /\ pc \in {"parse", "lines", "report", "prompt", "summary"}
    /\ Leave("exited", "KeyboardInterrupt")
    /\ UNCHANGED <<devices, reportVars, seen>>

\* Faulty variant: report does not look at the map before it goes on.
ReportStartNoEmptyCheck ==
    /\ pc = "report"
    /\ \E exists \in BOOLEAN, overwrite \in BOOLEAN :
           pc' = IF exists /\ ~overwrite THEN "prompt" ELSE "open"
    /\ UNCHANGED <<devices, exc, parserVars, reportVars, seen>>

\* report up to the prompt or its try: nothing to do without devices; the
\* user is asked when the file exists and noPrompt was not given.
ReportStart ==
    /\ pc = "report"
    /\ \/ /\ devices = <<>>
          /\ pc' = "summary"
       \/ /\ devices # <<>>
          /\ \E exists \in BOOLEAN, overwrite \in BOOLEAN :
                 pc' = IF exists /\ ~overwrite THEN "prompt" ELSE "open"
    /\ UNCHANGED <<devices, exc, parserVars, reportVars, seen>>

\* _yesNo: y overwrites, n makes report return, any other answer asks again.
YesNo ==
    /\ pc = "prompt"
    /\ \E yn \in {"y", "n", "?"} :
           pc' = IF yn = "y" THEN "open" ELSE IF yn = "n" THEN "summary" ELSE "prompt"
    /\ UNCHANGED <<devices, exc, parserVars, reportVars, seen>>

\* outFile.parent.mkdir(...) and outFile.open('w'): the file is created, or
\* emptied if it was there.
ReportOpen ==
    /\ pc = "open"
    /\ outFile' = [opened |-> TRUE, rows |-> <<>>]
    /\ pc' = "rows"
    /\ UNCHANGED <<devices, exc, parserVars, rows, printed, seen>>

\* The rows are built and sorted.
ReportRows ==
    /\ pc = "rows"
    /\ rows' = Rows(devices)
    /\ pc' = "write"
    /\ UNCHANGED <<devices, exc, parserVars, outFile, printed, seen>>

\* f.write(tabulate(rows, ...)) and the end of the with block: the table is
\* in the file.
ReportWrite ==
    /\ pc = "write"
    /\ outFile' = [opened |-> TRUE, rows |-> rows]
    /\ pc' = "summary"
    /\ UNCHANGED <<devices, exc, parserVars, rows, printed, seen>>

\* Anything raised inside the try of report (mkdir or open failing, an
\* interrupt, tabulate failing, the write failing after part of the table)
\* becomes a Warning, on which main exits.
ReportFails ==
    /\ pc \in {"open", "rows", "write"}
    /\ \/ UNCHANGED outFile
       \/ /\ pc = "write"
          /\ \E n \in 1..(Len(rows) - 1) :
                 outFile' = [opened |-> TRUE, rows |-> SubSeq(rows, 1, n)]
    /\ Leave("exited", "Warning")
    /\ UNCHANGED <<devices, rows, printed, seen>>

\* print(..., bp.summarise(), ...)
PrintSummary ==
    /\ pc = "summary"
    /\ printed' = Summarise
    /\ pc' = "done"
    /\ UNCHANGED <<devices, exc, parserVars, outFile, rows, seen>>

Next ==
    \/ OpenFile
    \/ OpenFails
    \/ ParseLine
    \/ EndOfFile
    \/ Interrupt
    \/ ReportStart
    \/ YesNo
    \/ ReportOpen
    \/ ReportRows
    \/ ReportWrite
    \/ ReportFails
    \/ PrintSummary

Spec == Init /\ [][Next]_vars


(***************************************************************************)
(* Properties of a run of main, checked under Spec.                        *)
(***************************************************************************)
\* C1: _addDeviceRecord has no failure modes: whatever candidate parse hands
\* it, the call returns and no ValueError leaves it.
C1_MergeNeverRaises == exc # "ValueError"

\* The line loop has gone through every line of the file f, the only input
\* file so far.
Parsed(f) == pc = "lines" /\ history = <<f>> /\ lineIdx > Len(lines)

\* C2: after the file of the end-to-end scenario is parsed, the map holds
\* exactly one record, keyed AA:BB:CC:DD:EE:FF, with rssi -50 and name
\* TestDevice.
C2_EndToEndMerged ==
    Parsed(EndToEndFile) =>
        /\ DOMAIN devices = {MacFull}
        /\ devices[MacFull].rssi = 0 - 50
        /\ devices[MacFull].name = TestDevice

\* C3: the output file is all or nothing: untouched, or holding the whole
\* table of the devices.
C3_ReportAllOrNothing ==
    \/ outFile = Untouched
    \/ outFile = [opened |-> TRUE, rows |-> Rows(devices)]

\* C11: when the map is empty at the call of report, report returns without
\* an error and without asking the user, and the output file is neither
\* created, emptied nor written.
C11_EmptyMapNoReport ==
    devices = <<>> =>
        /\ pc \notin {"prompt", "open", "rows", "write"}
        /\ exc # "Warning"
        /\ outFile = Untouched

\* report has returned to main with an empty map and an untouched output
\* file; the summary counts no device.
C11_Witness ==
    /\ pc = "done"
    /\ devices = <<>>
    /\ printed = 0
    /\ outFile = Untouched

\* The line at index i of the file being parsed, as the loop tests it.
Stripped(i) == RStrip(LineText[lines[i]])

\* The indexes of the boundary lines among the first n lines of the file.
BoundariesUpTo(n) == {i \in 1..n : IsBoundary(Stripped(i))}

\* C12: the accumulators left after the last line of a file are not
\* flushed: the merge calls made in a file are as many as the boundary lines
\* read, the end of the file changes nothing in the map, and a file with a
\* single block adds no record.
C12_NoTrailingFlush ==
    /\ [](pc = "lines" =>
             /\ Len(emitted) = Cardinality(BoundariesUpTo(lineIdx - 1))
             /\ (Len(history) = 1 /\ Cardinality(BoundariesUpTo(Len(lines))) <= 1)
                    => devices = <<>>)
    /\ [][pc = "lines" /\ lineIdx > Len(lines) => devices' = devices /\ seen' = seen]_vars

\* The loop has read the last line of a file inside a block with a timestamp
\* and an address the map does not hold, after flushing an earlier block.
C12_Witness ==
    /\ pc = "lines"
    /\ lineIdx > Len(lines)
    /\ Len(emitted) = 2
    /\ devices # <<>>
    /\ ParseFloat(timestamp).ok
    /\ NormalizeMac(mac) # <<>>
    /\ NormalizeMac(mac) \notin DOMAIN devices

\* The index of the j-th boundary line of the file, 0 for j = 0.
NthBoundary(j) ==
    IF j = 0 THEN 0
    ELSE CHOOSE i \in BoundariesUpTo(Len(lines)) : Cardinality(BoundariesUpTo(i)) = j

\* The lines whose fields the j-th candidate of the file can carry: those
\* after the boundary line before it and before the boundary line that
\* flushes it.
BlockLines(j) == (NthBoundary(j - 1) + 1)..(NthBoundary(j) - 1)

\* The texts the pattern P captures on the lines of the j-th block.
Captured(P(_), j) ==
    {P(LStrip(Stripped(i))).text : i \in {b \in BlockLines(j) : P(LStrip(Stripped(b))).found}}

\* x is empty when the block has no value for it, else one of its values.
FromBlock(x, values) == IF values = {} THEN x = <<>> ELSE x \in values

\* The loop is at a boundary line and goes on after it.
FlushStep ==
    /\ pc = "lines"
    /\ lineIdx <= Len(lines)
    /\ IsBoundary(Stripped(lineIdx))
    /\ lineIdx' = lineIdx + 1

\* C13: every boundary line hands the five accumulators to the merge as one
\* candidate, empty or not, and leaves them empty but for its own timestamp;
\* the candidates come in the order of the boundary lines, and each carries
\* the timestamp of the boundary line that opened its block and fields read
\* on the lines of that block only.
C13_BoundaryFlushesAndResets ==
    /\ [][FlushStep =>
             /\ emitted' = Append(emitted, [timestamp |-> timestamp, mac |-> mac,
                                            name |-> name, manufacturer |-> manufacturer,
                                            rssi |-> rssi])
             /\ mac' = <<>> /\ name' = <<>> /\ manufacturer' = <<>> /\ rssi' = <<>>
             /\ timestamp' = TimestampOf(Stripped(lineIdx)).text]_vars
    /\ [](pc = "lines" =>
             \A j \in 1..Len(emitted) :
                 /\ emitted[j].timestamp =
                        IF j = 1 THEN <<>> ELSE TimestampOf(Stripped(NthBoundary(j - 1))).text
                 /\ FromBlock(emitted[j].mac, Captured(AddressOf, j))
                 /\ FromBlock(emitted[j].name, Captured(NameOf, j))
                 /\ FromBlock(emitted[j].manufacturer, Captured(CompanyOf, j))
                 /\ FromBlock(emitted[j].rssi, Captured(RssiOf, j)))

\* Three flushes in one file: one of empty accumulators, one of a block with
\* an address, and one of the block after it, which has none.
C13_Witness ==
    /\ pc = "lines"
    /\ Len(emitted) = 3
    /\ emitted[1] = Empty
    /\ emitted[2].mac # <<>>
    /\ emitted[3].mac = <<>>
    /\ emitted[3].timestamp # <<>>

\* The loop is at a line that is not a boundary line and goes on after it.
FieldStep ==
    /\ pc = "lines"
    /\ lineIdx <= Len(lines)
    /\ ~IsBoundary(Stripped(lineIdx))
    /\ lineIdx' = lineIdx + 1

\* The accumulators that a step changes.
Changed ==
    {i \in 1..5 : <<timestamp, mac, name, manufacturer, rssi>>[i]
                      # <<timestamp', mac', name', manufacturer', rssi'>>[i]}

\* C14: a continuation line is tried against Address, Name, Company and RSSI
\* in this order and sets the accumulator of the first pattern that matches,
\* so it changes at most one accumulator; a line that matches none, a blank
\* line included, changes no accumulator; no continuation line flushes.
C14_FirstPatternOnly ==
    [][FieldStep =>
         LET line == LStrip(Stripped(lineIdx))
         IN  /\ Cardinality(Changed) <= 1
             /\ emitted' = emitted
             /\ devices' = devices
             /\ IF AddressOf(line).found THEN Changed \subseteq {2} /\ mac' = AddressOf(line).text
                ELSE IF NameOf(line).found THEN Changed \subseteq {3} /\ name' = NameOf(line).text
                ELSE IF CompanyOf(line).found
                THEN Changed \subseteq {4} /\ manufacturer' = CompanyOf(line).text
                ELSE IF RssiOf(line).found THEN Changed \subseteq {5} /\ rssi' = RssiOf(line).text
                ELSE Changed = {}]_vars

\* The loop has passed a line that no pattern matches, blank or not, inside
\* a block that had set a timestamp, an address and a name, which are kept.
C14_Witness ==
    /\ pc = "lines"
    /\ lineIdx > 1
    /\ lines[lineIdx - 1] \in {"BlankLine", "FlagsLine"}
    /\ timestamp # <<>>
    /\ mac # <<>>
    /\ name # <<>>

\* The record of k is what merging everything sighted for k gives, whatever
\* the files the sightings came from.
MergedAcrossFiles(k) ==
    /\ k \in DOMAIN seen
    /\ devices[k].firstTime \in seen[k].stamps
    /\ devices[k].lastTime \in seen[k].stamps
    /\ \A t \in seen[k].stamps :
           ~FloatLess(t, devices[k].firstTime) /\ ~FloatLess(devices[k].lastTime, t)
    /\ devices[k].name = (IF seen[k].names = <<>> THEN <<>> ELSE seen[k].names[1])
    /\ devices[k].manufacturer
           = (IF seen[k].manufacturers = <<>> THEN <<>> ELSE seen[k].manufacturers[1])
    /\ \A m \in seen[k].magnitudes : Abs(devices[k].rssi) <= m

\* C15: every file starts with empty accumulators, so the first candidate of
\* a file has no timestamp and only fields read in that file, while the map
\* goes from file to file: opening a file leaves it as it is, no record is
\* ever dropped, and a record holds the merge of all sightings of its MAC.
C15_FilesShareMapOnly ==
    /\ [][pc = "parse" /\ pc' = "lines" =>
             /\ timestamp' = <<>> /\ mac' = <<>> /\ name' = <<>>
             /\ manufacturer' = <<>> /\ rssi' = <<>>
             /\ devices' = devices]_vars
    /\ [][DOMAIN devices \subseteq DOMAIN devices']_vars
    /\ [](pc = "lines" /\ emitted # <<>> =>
             /\ emitted[1].timestamp = <<>>
             /\ FromBlock(emitted[1].mac, Captured(AddressOf, 1))
             /\ FromBlock(emitted[1].name, Captured(NameOf, 1))
             /\ FromBlock(emitted[1].manufacturer, Captured(CompanyOf, 1))
             /\ FromBlock(emitted[1].rssi, Captured(RssiOf, 1)))
    /\ [](\A k \in DOMAIN devices : MergedAcrossFiles(k))

\* The second file of the two-file scenario has been read: the block the
\* first file ended in has left nothing, and the record the first file made
\* has kept its name and signal strength and got the later timestamp.
C15_Witness ==
    /\ pc = "lines"
    /\ history = <<CrossFileFirst, CrossFileSecond>>
    /\ lineIdx > Len(lines)
    /\ emitted[1] = [Empty EXCEPT !.name = Bob]
    /\ DOMAIN devices = {MacUpper}
    /\ devices[MacUpper].name = Alice
    /\ devices[MacUpper].rssi = 0 - 45
    /\ devices[MacUpper].firstTime = ParseFloat(Ts10).val
    /\ devices[MacUpper].lastTime = ParseFloat(Ts25).val

\* main is in report or past it.
Reporting == pc \in {"report", "prompt", "open", "rows", "write", "summary", "done"}

\* C17: the files are parsed one after the other in the order given, each to
\* its last line before the next is opened; report starts only from the end
\* of the last file; and when a file cannot be read or a merge raises, the
\* run is over and the output file is as it was.
C17_SequentialAbortOnFailure ==
    /\ [][pc # "lines" /\ pc' = "lines" =>
             pc = "parse" /\ history' = Append(history, lines') /\ lineIdx' = 1]_vars
    /\ [][pc = "lines" /\ pc' \in {"parse", "report"} => lineIdx > Len(lines)]_vars
    /\ [][pc # "report" /\ pc' = "report" => pc = "lines" /\ lineIdx > Len(lines)]_vars
    /\ [][pc = "crashed" => pc' = "crashed"]_vars
    /\ [](Reporting => lines = <<>> /\ exc = "none")
    /\ [](pc \in {"parse", "lines", "crashed"} => outFile = Untouched)
    /\ [](exc \in {"OSError", "ValueError"} => pc = "crashed")

\* A file could not be read after an earlier file had put a record into the
\* map: the run is over and the output file is as it was.
C17_Witness ==
    /\ pc = "crashed"
    /\ exc = "OSError"
    /\ devices # <<>>
    /\ outFile = Untouched

\* C18: the table has exactly one row for every record of the map, of the
\* form mac, firstTime, lastTime, name, manufacturer, rssi; the name cell is
\* the MAC when the record has no name, the manufacturer cell is "Unknown"
\* when it has no manufacturer, and the rssi cell is "Unknown" exactly when
\* the magnitude of the stored rssi is above 255, else the stored number.
C18_OneRowPerRecord ==
    rows # <<>> =>
        /\ Len(rows) = Cardinality(DOMAIN devices)
        /\ \A k \in DOMAIN devices : \E i \in 1..Len(rows) : rows[i][1] = k
        /\ \A i \in 1..Len(rows) :
               LET row == rows[i]
                   rec == devices[row[1]]
               IN  /\ Len(row) = 6
                   /\ row[1] \in DOMAIN devices
                   /\ row[2] = rec.firstTime
                   /\ row[3] = rec.lastTime
                   /\ row[4] = (IF rec.name = <<>> THEN row[1] ELSE rec.name)
                   /\ row[5] = (IF rec.manufacturer = <<>> THEN Unknown ELSE rec.manufacturer)
                   /\ (row[6] = Unknown) <=> (Abs(rec.rssi) > 255)
                   /\ row[6] # Unknown => row[6] = IntStr(rec.rssi)

\* The row of the table for the MAC k.
RowFor(k) == CHOOSE row \in {outFile.rows[i] : i \in 1..Len(outFile.rows)} : row[1] = k

\* The report of the seven devices has been written: -255 is shown as a
\* number, -256 and the absent rssi as "Unknown", and the name and the
\* manufacturer are replaced where they are missing.
C18_Witness ==
    /\ pc = "done"
    /\ Len(outFile.rows) = 7
    /\ devices[MacD4].rssi = 0 - 255 /\ RowFor(MacD4)[6] = Rssi255
    /\ devices[MacE5].rssi = 0 - 256 /\ RowFor(MacE5)[6] = Unknown
    /\ devices[MacC3].rssi = UnknownRssi /\ RowFor(MacC3)[6] = Unknown
    /\ RowFor(MacUpper)[4] = Alice /\ RowFor(MacUpper)[5] = Unknown
    /\ RowFor(MacOther)[4] = MacOther /\ RowFor(MacOther)[5] = Acme

\* The text by which the claim orders a row: its rssi cell, a space, its MAC.
KeyOf(row) == row[6] \o <<" ">> \o row[1]

\* C19: the rows are in non-decreasing order of the text "<rssi> <mac>",
\* compared character by character and not as numbers; so the rows whose
\* rssi is "Unknown" come after all the rows with a number, and rows with
\* the same rssi cell are in the order of their MACs.
C19_RowsSortedAsText ==
    rows # <<>> =>
        \A i \in 1..Len(rows) : \A j \in (i + 1)..Len(rows) :
            /\ ~StrLess(KeyOf(rows[j]), KeyOf(rows[i]))
            /\ rows[i][6] = Unknown => rows[j][6] = Unknown
            /\ rows[i][6] = rows[j][6] => StrLess(rows[i][1], rows[j][1])

\* The report of the seven devices has been written: -45 stands before -50,
\* -9 after -80, and the two rows without a shown rssi are last, by MAC.
C19_Witness ==
    /\ pc = "done"
    /\ [i \in 1..Len(outFile.rows) |-> outFile.rows[i][1]]
           = <<MacD4, MacAB7, MacF6, MacOther, MacUpper, MacC3, MacE5>>
    /\ [i \in 1..Len(outFile.rows) |-> outFile.rows[i][6]]
           = <<Rssi255, Rssi45, Rssi50, Rssi80, Rssi9, Unknown, Unknown>>

\* The text the pattern P captures on the last line of the j-th block that
\* it matches, empty if it matches none.
LastCaptured(P(_), j) ==
    LET hits == {b \in BlockLines(j) : P(LStrip(Stripped(b))).found}
        last == CHOOSE b \in hits : \A h \in hits : h <= b
    IN  IF hits = {} THEN <<>> ELSE P(LStrip(Stripped(last))).text

\* C20: within a block the last matching line wins for every field: the
\* candidate of a block carries the address of its last Address line, the
\* name of its last Name line, the manufacturer of its last Company line and
\* the rssi of its last RSSI line, so a block that names several devices
\* gives one candidate, for the last address.
C20_LastLineWins ==
    pc = "lines" =>
        \A j \in 1..Len(emitted) :
            /\ emitted[j].mac = LastCaptured(AddressOf, j)
            /\ emitted[j].name = LastCaptured(NameOf, j)
            /\ emitted[j].manufacturer = LastCaptured(CompanyOf, j)
            /\ emitted[j].rssi = LastCaptured(RssiOf, j)

\* The block that names two devices and gives every field twice has been
\* flushed: one candidate, with the second value of every field, and one
\* record, for the second address.
C20_Witness ==
    /\ pc = "lines"
    /\ history = <<LastWinsFile>>
    /\ lineIdx > Len(lines)
    /\ emitted = <<Empty, [timestamp |-> Ts10, mac |-> MacOther, name |-> Bob,
                           manufacturer |-> Apex, rssi |-> Rssi90]>>
    /\ DOMAIN devices = {MacOther}
    /\ devices[MacOther].name = Bob
    /\ devices[MacOther].rssi = 0 - 90

(***************************************************************************)
(* Properties of the merge, checked under SpecMerge.                       *)
(***************************************************************************)
FloatLeq(a, b) == ~FloatLess(b, a)

FirstOf(sq) == IF sq = <<>> THEN <<>> ELSE sq[1]

\* C6: a record's name is the first non-empty name merged for its MAC (empty
\* if there was none), and its manufacturer the first non-empty manufacturer,
\* each whatever the other is.
C6_FirstNonEmptyWins ==
    \A k \in DOMAIN devices :
        /\ devices[k].name = FirstOf(seen[k].names)
        /\ devices[k].manufacturer = FirstOf(seen[k].manufacturers)

\* Two different names and two different manufacturers were merged for one
\* MAC, the first name coming with the second manufacturer or with none.
C6_Witness ==
    \E k \in DOMAIN devices :
        /\ seen[k].names = <<Alice, Bob>>
        /\ seen[k].manufacturers = <<Apex, Acme>>
        /\ devices[k].name = Alice
        /\ devices[k].manufacturer = Apex

\* C7: the magnitude of a record's rssi is the smallest of the magnitudes
\* merged for its MAC, an absent rssi counting as the sentinel 5000.
C7_StrongestSignalWins ==
    \A k \in DOMAIN devices :
        /\ Abs(devices[k].rssi) \in seen[k].magnitudes
        /\ \A m \in seen[k].magnitudes : Abs(devices[k].rssi) <= m

\* -80, -45, -90 and an absent rssi were all merged; -45 is stored.
C7_Witness ==
    \E k \in DOMAIN devices :
        /\ seen[k].magnitudes = {80, 45, 90, UnknownRssi}
        /\ devices[k].rssi = 0 - 45

\* C8: a candidate whose mac is empty after trimming is discarded, whatever
\* its timestamp and rssi: the call returns and the map is left as it was.
C8_EmptyMacDiscarded ==
    \A c \in Candidates :
        Strip(c.mac) = <<>> =>
            AddDeviceRecord(devices, c) = [exc |-> "none", devices |-> devices]

\* A map with records, and a blank-address candidate with an unparseable
\* timestamp and rssi, which the call returns from.
C8_Witness ==
    /\ devices # <<>>
    /\ \E c \in Candidates :
           /\ c.mac = MacBlank /\ c.timestamp = TsBad /\ c.rssi = RssiBad
           /\ AddDeviceRecord(devices, c).exc = "none"

\* C9: merging a candidate a second time leaves the map as the first merge
\* left it.
C9_MergeIdempotent ==
    \A c \in Candidates :
        LET once == AddDeviceRecord(devices, c)
        IN  once.exc = "none" => AddDeviceRecord(once.devices, c) = once

\* A first sighting whose second merge keeps both bounds at its timestamp,
\* in a map that already holds another record.
C9_Witness ==
    /\ devices # <<>>
    /\ \E c \in Sightings :
           LET once == AddDeviceRecord(devices, c)
               key  == NormalizeMac(c.mac)
           IN  /\ key \notin DOMAIN devices
               /\ c.name # <<>>
               /\ AddDeviceRecord(once.devices, c).devices[key].firstTime
                      = AddDeviceRecord(once.devices, c).devices[key].lastTime

KeysNormalized ==
    \A k \in DOMAIN devices : k # <<>> /\ Strip(k) = k /\ Upper(k) = k

\* C10: every key of the map is non-empty, trimmed and upper case; the keys
\* are the normalized MACs merged so far, summarise() counts them, and no
\* step removes a key.
C10_KeysNormalizedAndGrowing ==
    /\ [](KeysNormalized /\ DOMAIN devices = DOMAIN seen
            /\ Summarise = Cardinality(DOMAIN seen))
    /\ [][DOMAIN devices \subseteq DOMAIN devices']_vars

\* Two devices in the map, one of them merged under several spellings.
C10_Witness ==
    /\ Summarise = 2
    /\ \E k \in DOMAIN devices : Cardinality(seen[k].stamps) > 1

\* C16: one merge into an existing record changes at most one of firstTime
\* and lastTime: a timestamp below firstTime becomes firstTime and leaves
\* lastTime; any other timestamp leaves firstTime and becomes lastTime only
\* if it is above lastTime.
C16_TimeBoundsExclusive ==
    \A c \in Candidates :
        LET key == NormalizeMac(c.mac)
            res == AddDeviceRecord(devices, c)
        IN  (key \in DOMAIN devices /\ res.exc = "none") =>
                LET old == devices[key]
                    new == res.devices[key]
                    t   == ParseFloat(c.timestamp).val
                IN  /\ new.firstTime = old.firstTime \/ new.lastTime = old.lastTime
                    /\ IF FloatLess(t, old.firstTime)
                       THEN new.firstTime = t /\ new.lastTime = old.lastTime
                       ELSE /\ new.firstTime = old.firstTime
                            /\ new.lastTime = IF FloatLess(old.lastTime, t) THEN t
                                              ELSE old.lastTime

\* A record whose lastTime a merge has moved, with a candidate at hand whose
\* timestamp is below its firstTime.
C16_Witness ==
    \E k \in DOMAIN devices :
        /\ seen[k].stamps = {ParseFloat(Ts25).val, ParseFloat(Ts30).val}
        /\ devices[k].firstTime = ParseFloat(Ts25).val
        /\ devices[k].lastTime = ParseFloat(Ts30).val
        /\ \E c \in Sightings :
               /\ NormalizeMac(c.mac) = k
               /\ FloatLess(ParseFloat(c.timestamp).val, devices[k].firstTime)

=============================================================================
